---- MODULE Spec2Model ----
(***************************************************************************)
(* A model of the HashFS content-addressable file store                    *)
(* (src/hashfs/hashfs.py, src/hashfs/utils.py).                            *)
(*                                                                         *)
(* Strings (identifiers, digests, paths, extensions) are sequences of      *)
(* one-character strings, so that sharding, joining, splitting off an      *)
(* extension and unsharding are computed character by character as the     *)
(* code computes them.  File contents are sequences of byte values.        *)
(*                                                                         *)
(* The filesystem is one namespace: `files` maps a normalised absolute     *)
(* path to the file stored there, `dirs` is the set of directories, and    *)
(* `links` the directories that are symbolic links.                        *)
(***************************************************************************)
EXTENDS Integers, Sequences, FiniteSets, TLC

(***************************************************************************)
(* Bounds of the model.                                                    *)
(***************************************************************************)
\* Length of a hex digest (64 for sha256; shortened here).
DigestLen == 3
\* The digests, depths and widths given to shard on its own.
MaxShardLen == 4
MaxDepth == 3
MaxWidth == 2
\* The positions at which a readable object may stand when it is put.
MaxPos == 2

(***************************************************************************)
(* Strings and the os.path functions the store uses (POSIX flavour).       *)
(***************************************************************************)
Sep == "/"
ExtSep == "."

Min(a, b) == IF a < b THEN a ELSE b

\* Python's s[i:j] for 0 <= i, 0 <= j (indices clamped to the length).
Slice(s, i, j) == SubSeq(s, Min(i, Len(s)) + 1, Min(j, Len(s)))

\* Python's s[i:].
SliceFrom(s, i) == SubSeq(s, Min(i, Len(s)) + 1, Len(s))

\* str.startswith.
StartsWith(s, p) == Len(s) >= Len(p) /\ SubSeq(s, 1, Len(p)) = p

\* str.rfind, as a 1-based index; 0 when the character does not occur.
RECURSIVE RFindFrom(_, _, _)
RFindFrom(s, c, i) ==
    IF i = 0 THEN 0 ELSE IF s[i] = c THEN i ELSE RFindFrom(s, c, i - 1)
RFind(s, c) == RFindFrom(s, c, Len(s))

\* str.replace(c, ''): the string without the occurrences of c.
Without(s, c) == SelectSeq(s, LAMBDA x : x # c)

\* str.rstrip(c).
RECURSIVE RStrip(_, _)
RStrip(s, c) ==
    IF s # <<>> /\ s[Len(s)] = c THEN RStrip(SubSeq(s, 1, Len(s) - 1), c) ELSE s

\* str.split(sep), keeping empty segments.
RECURSIVE SplitFrom(_, _, _, _)
SplitFrom(s, c, i, cur) ==
    IF i > Len(s) THEN <<cur>>
    ELSE IF s[i] = c THEN <<cur>> \o SplitFrom(s, c, i + 1, <<>>)
    ELSE SplitFrom(s, c, i + 1, Append(cur, s[i]))
SplitOn(s, c) == SplitFrom(s, c, 1, <<>>)

\* sep.join(parts).
RECURSIVE JoinWith(_, _)
JoinWith(parts, c) ==
    IF parts = <<>> THEN <<>>
    ELSE IF Len(parts) = 1 THEN parts[1]
    ELSE parts[1] \o <<c>> \o JoinWith(Tail(parts), c)

\* posixpath.isabs.
IsAbs(p) == StartsWith(p, <<Sep>>)

\* posixpath.join(a, b).
Join2(a, b) ==
    IF IsAbs(b) THEN b
    ELSE IF a = <<>> \/ a[Len(a)] = Sep THEN a \o b
    ELSE a \o <<Sep>> \o b

\* posixpath.join(a, *parts).
RECURSIVE JoinAll(_, _)
JoinAll(a, parts) ==
    IF parts = <<>> THEN a ELSE JoinAll(Join2(a, Head(parts)), Tail(parts))

\* The component stack of posixpath.normpath for an absolute path: empty and
\* "." components are dropped, ".." pops (and is dropped at the top).
RECURSIVE NormComps(_, _)
NormComps(comps, acc) ==
    IF comps = <<>> THEN acc
    ELSE LET c == Head(comps)
         IN  IF c = <<>> \/ c = <<".">> THEN NormComps(Tail(comps), acc)
             ELSE IF c = <<".", ".">>
                  THEN NormComps(Tail(comps),
                                 IF acc = <<>> THEN acc
                                 ELSE SubSeq(acc, 1, Len(acc) - 1))
             ELSE NormComps(Tail(comps), Append(acc, c))

\* The working directory of the calling process.
Cwd == <<"/", "w">>

\* The path components of posixpath.abspath(p).
AbsComps(p) == NormComps(SplitOn(IF IsAbs(p) THEN p ELSE Join2(Cwd, p), Sep), <<>>)

\* posixpath.abspath(p): absolute and normalised.
AbsPath(p) == <<Sep>> \o JoinWith(AbsComps(p), Sep)

\* posixpath.dirname.
DirName(p) ==
    LET head == SubSeq(p, 1, RFind(p, Sep))
    IN  IF head # <<>> /\ Without(head, Sep) # <<>> THEN RStrip(head, Sep) ELSE head

\* posixpath.basename.
BaseName(p) == SubSeq(p, RFind(p, Sep) + 1, Len(p))

\* genericpath._splitext: the extension starts at the last dot of the last
\* component, unless only dots precede it there.
SplitExt(p) ==
    LET sepIndex == RFind(p, Sep)
        dotIndex == RFind(p, ExtSep)
    IN  IF dotIndex > sepIndex
           /\ \E k \in (sepIndex + 1)..(dotIndex - 1) : p[k] # ExtSep
        THEN <<SubSeq(p, 1, dotIndex - 1), SubSeq(p, dotIndex, Len(p))>>
        ELSE <<p, <<>>>>

\* posixpath.relpath(path, start).
RelPathFrom(path, start) ==
    LET sl == AbsComps(start)
        pl == AbsComps(path)
        common == {i \in 0..Min(Len(sl), Len(pl)) :
                      \A k \in 1..i : sl[k] = pl[k]}
        n == CHOOSE i \in common : \A j \in common : j <= i
        ups == [k \in 1..(Len(sl) - n) |-> <<".", ".">>]
        rel == ups \o SubSeq(pl, n + 1, Len(pl))
    IN  IF rel = <<>> THEN <<".">> ELSE JoinWith(rel, Sep)

(***************************************************************************)
(* Contents, digests and the store's configuration.                        *)
(***************************************************************************)
\* _compat.to_bytes on text: the UTF-8 encoding of a sequence of code points
\* (below U+0800).
\* A to_bytes that takes a text's code points for its bytes.
to_bytes_Raw(text) == text

RECURSIVE to_bytes(_)
to_bytes(text) ==
    IF text = <<>> THEN <<>>
    ELSE LET cp == Head(text)
         IN  (IF cp < 128 THEN <<cp>> ELSE <<192 + (cp \div 64), 128 + (cp % 64)>>)
             \o to_bytes(Tail(text))

\* The number hashlib's digest stands for: a stand-in for the cryptographic
\* hash, computed over all the bytes and free of collisions on the contents
\* of this model.
RECURSIVE HashNum(_, _)
HashNum(bytes, h) ==
    IF bytes = <<>> THEN h
    ELSE HashNum(Tail(bytes), (h * 3 + Head(bytes)) % (2 ^ DigestLen))

\* hexdigest(): DigestLen hex digits (only the digits a and b occur); the
\* lowest bits of the number come second and third, so that the digests of
\* the model's contents differ in their second shard.
HexDigest(n) ==
    [i \in 1..DigestLen |->
        LET bit == IF i = 1 THEN DigestLen - 1 ELSE i - 2
        IN  IF (n \div (2 ^ bit)) % 2 = 0 THEN "a" ELSE "b"]

\* HashFS.computehash over the whole stream.
computehash(bytes) == HexDigest(HashNum(bytes, 0))

\* HashFS.root, and the directory NamedTemporaryFile creates its files in.
Root == <<"/", "r">>
TmpDir == <<"/", "t">>

\* HashFS.depth and HashFS.width of the store.
depth == 2
width == 1

\* HashFS.fmode (0o664), and the mode of the caller's own file (0o644).
fmode == 436
UserMode == 420

VARIABLES
    files,      \* normalised absolute path -> [data, mode]
    dirs,       \* the directories (normalised absolute paths)
    links,      \* the directories that are symbolic links
    last,       \* the call that has just returned ([op, call, res]), or Idle
    pre,        \* files and dirs as they were when that call began
    proc        \* concurrent callers: each one's position in its put

vars == <<files, dirs, links, last, pre, proc>>

(***************************************************************************)
(* The filesystem primitives, on a filesystem given as (fl, ds).           *)
(***************************************************************************)
\* os.path.isfile / os.path.isdir.
IsFileIn(fl, p) == AbsPath(p) \in DOMAIN fl
isfile(p) == IsFileIn(files, p)

\* os.listdir(d): the entries (files and directories) directly in d.
ListDir(fl, ds, d) ==
    LET dir == AbsPath(d)
    IN  {k \in (DOMAIN fl) \cup ds : k # <<Sep>> /\ DirName(k) = dir}

\* An os.remove that leaves the file.
RemoveFile_Keep(fl, p) == fl

\* os.remove / writing a whole file.
RemoveFile(fl, p) ==
    LET gone == AbsPath(p) IN [k \in (DOMAIN fl) \ {gone} |-> fl[k]]
WriteFile(fl, p, data, mode) == (AbsPath(p) :> [data |-> data, mode |-> mode]) @@ fl

\* The directory p and its ancestors.
RECURSIVE Ancestors(_)
Ancestors(p) ==
    IF p = <<>> \/ Without(p, Sep) = <<>> THEN {} ELSE {p} \cup Ancestors(DirName(p))

(***************************************************************************)
(* Sharding and path building.                                             *)
(***************************************************************************)
\* utils.compact.
compact(items) == SelectSeq(items, LAMBDA x : x # <<>>)

\* A shard that forgets the remainder of the digest.
shard_NoRemainder(digest, d, w) ==
    compact([i \in 1..d |-> Slice(digest, (i - 1) * w, w * i)])

\* utils.shard.
shard(digest, d, w) ==
    compact([i \in 1..d |-> Slice(digest, (i - 1) * w, w * i)]
            \o <<SliceFrom(digest, d * w)>>)

\* An idpath that puts a separator before every extension.
idpath_AlwaysDot(id, extension) ==
    JoinAll(Root, shard(id, depth, width))
    \o (IF extension # <<>> THEN <<ExtSep>> \o extension ELSE extension)

\* An idpath that appends the extension as it is given.
idpath_AsGiven(id, extension) == JoinAll(Root, shard(id, depth, width)) \o extension

\* HashFS.idpath; a missing extension (None) is the empty string.

idpath(id, extension) ==
    LET paths == shard(id, depth, width)
        ext == IF extension # <<>> /\ ~StartsWith(extension, <<ExtSep>>)
               THEN <<ExtSep>> \o extension
               ELSE extension
    IN  JoinAll(Root, paths) \o ext

\* utils.issubdir: subpath lies strictly inside path.
issubdir(subpath, path) == StartsWith(AbsPath(subpath), AbsPath(path) \o <<Sep>>)

\* HashFS.haspath.
haspath(path) == issubdir(path, Root)

\* HashFS.relpath.
relpath(path) == RelPathFrom(path, Root)

\* HashFS.makepath (distutils' mkpath, by its documented effect): the
\* directory and its missing ancestors exist afterwards.  mkpath's
\* per-process memory of the directories it has made is not modelled.
makepath(ds, path) == ds \cup Ancestors(AbsPath(path))

\* glob.glob(filepath + '.*'): the entries beside filepath whose name is
\* filepath's name, a dot, and anything.  The order of the matches is the
\* directory's, so any of them may come first.
GlobExt(fl, ds, filepath) ==
    {Join2(DirName(filepath), BaseName(k)) :
        k \in {e \in ListDir(fl, ds, DirName(filepath)) :
                  StartsWith(BaseName(e), BaseName(filepath) \o <<ExtSep>>)}}

\* HashFS.realpath: the values it may return; NoPath is None.
NoPath == [found |-> FALSE, path |-> <<>>]
Found(p) == [found |-> TRUE, path |-> p]
realpath(fl, ds, file) ==
    IF IsFileIn(fl, file) THEN {Found(file)}
    ELSE IF IsFileIn(fl, Join2(Root, file)) THEN {Found(Join2(Root, file))}
    ELSE IF IsFileIn(fl, idpath(file, <<>>)) THEN {Found(idpath(file, <<>>))}
    ELSE LET paths == GlobExt(fl, ds, idpath(file, <<>>))
         IN  IF paths # {} THEN {Found(p) : p \in paths} ELSE {NoPath}

\* HashAddress and the other outcomes of a call.
HashAddress(id, rel, abs, dup) ==
    [kind |-> "address", id |-> id, relpath |-> rel, abspath |-> abs,
     is_duplicate |-> dup]
Raised(exc) == [kind |-> exc]
Returned(v) == [kind |-> "value", value |-> v]
NoneResult == [kind |-> "None"]

\* HashFS.unshard.
unshard(path) ==
    IF ~haspath(path) THEN Raised("ValueError")
    ELSE Returned(Without(SplitExt(relpath(path))[1], Sep))

(***************************************************************************)
(* The inputs of the calls.                                                *)
(***************************************************************************)
\* The caller's own file, outside the store, and what it holds.
UserFile == <<"/", "w", "/", "f">>
UserData == <<195, 169>>

\* The sources handed to put: text buffers (StringIO), the path of the
\* caller's file, a handle open on it, and a path that names no file.
Texts == {<<97>>, <<233>>}
Sources ==
    {[kind |-> "text", text |-> t] : t \in Texts}
    \cup {[kind |-> "path", path |-> UserFile],
          [kind |-> "handle", path |-> UserFile],
          [kind |-> "path", path |-> <<"f", "o", "o">>]}

\* The extension arguments: none, "t", ".t" and "t.g".
Extensions == {<<>>, <<"t">>, <<".", "t">>, <<"t", ".", "g">>}
Strategies == {"copy", "link"}

\* The contents the sources hold and the paths put can store them at.
Contents == {to_bytes(t) : t \in Texts} \cup {UserData}
StorePaths == {idpath(computehash(b), e) : b \in Contents, e \in Extensions}

\* An absolute path below the root, written with a doubled separator after
\* the root.
Doubled(p) == Root \o <<Sep>> \o SliceFrom(p, Len(Root))

\* The identifiers handed to get, exists, open and delete: digests, relative
\* and absolute paths of stored objects, a string that names nothing, and the
\* caller's file by absolute path and by path relative to the working
\* directory, and a stored object by an absolute path that is not normalised.
Identifiers ==
    {computehash(b) : b \in Contents}
    \cup {relpath(p) : p \in StorePaths}
    \cup StorePaths
    \cup {<<"z", "z">>, UserFile, <<"f">>, Doubled(idpath(computehash(UserData), <<>>))}

(***************************************************************************)
(* put.                                                                    *)
(***************************************************************************)
\* Stream.__init__: a readable object, or the path of an existing file.
StreamOk(fl, src) == src.kind # "path" \/ IsFileIn(fl, src.path)

\* Stream._pos: the position of the caller's readable object when the
\* Stream is made (0 when the model gives none), None for a file the Stream
\* opens itself.
NoPos == 0 - 1
StreamPos(src) ==
    IF src.kind = "path" THEN NoPos
    ELSE IF "pos" \in DOMAIN src THEN src.pos ELSE 0

\* The object the Stream reads: where it stands and whether it is closed.
Opened(src) ==
    [offset |-> IF StreamPos(src) = NoPos THEN 0 ELSE StreamPos(src),
     closed |-> FALSE]
Seek(h, offset) == [h EXCEPT !.offset = offset]

\* read() from the object's position to its end, as bytes, and the length
\* of what the object holds (characters of a text, bytes of a file).
StreamRead(fl, src, h) ==
    IF src.kind = "text" THEN to_bytes(SliceFrom(src.text, h.offset))
    ELSE SliceFrom(fl[AbsPath(src.path)].data, h.offset)
StreamLen(fl, src) ==
    IF src.kind = "text" THEN Len(src.text) ELSE Len(fl[AbsPath(src.path)].data)

\* An iteration that reads on from where the object stands.
StreamIter_NoRewind(fl, src, h) ==
    [data |-> StreamRead(fl, src, h),
     handle |-> IF StreamPos(src) # NoPos THEN Seek(h, StreamPos(src))
                ELSE Seek(h, StreamLen(fl, src))]

\* Stream.__iter__, run to its end: seek(0), read until nothing is left,
\* then back to the recorded position if there is one.
StreamIter(fl, src, h) ==
    LET atEnd == Seek(h, StreamLen(fl, src))
    IN  [data |-> StreamRead(fl, src, Seek(h, 0)),
         handle |-> IF StreamPos(src) # NoPos THEN Seek(atEnd, StreamPos(src))
                    ELSE atEnd]

\* Stream.close.
StreamClose(src, h) ==
    IF StreamPos(src) = NoPos THEN [h EXCEPT !.closed = TRUE]
    ELSE Seek(h, StreamPos(src))

\* All the chunks of one iteration of the Stream, as bytes.
StreamData(fl, src) == StreamIter(fl, src, Opened(src)).data

\* Stream.name: the path behind the object; empty (None) for a text buffer.
StreamName(src) == IF src.kind = "text" THEN <<>> ELSE src.path

\* A copy whose temporary file never reaches the target.
copy_NotMoved(fl, src, dst_path) == fl

\* PutStrategies.copy, start to end: the temporary file holding the data, with
\* mode fmode, ends up at dst_path.
copy(fl, src, dst_path) == WriteFile(fl, dst_path, StreamData(fl, src), fmode)

\* PutStrategies.link: a hard link to the source file, whose mode (the mode
\* of the one file behind both names) becomes fmode; copy when the stream has
\* no path or os.link fails with EMLINK, EXDEV or EPERM.
link(fl, src, dst_path, linked) ==
    IF StreamName(src) = <<>> \/ ~linked THEN copy(fl, src, dst_path)
    ELSE WriteFile(WriteFile(fl, dst_path, StreamData(fl, src), fmode),
                   StreamName(src), StreamData(fl, src), fmode)

\* A put that runs its strategy also when the target is there.
put_AlwaysStores(fl, ds, src, extension, put_strategy, simulate, linked) ==
    IF ~StreamOk(fl, src)
    THEN [files |-> fl, dirs |-> ds, res |-> Raised("ValueError")]
    ELSE LET id == computehash(StreamData(fl, src))
             filepath == idpath(id, extension)
             is_duplicate == IsFileIn(fl, filepath)
             address == HashAddress(id, relpath(filepath), filepath, is_duplicate)
         IN  IF ~simulate
             THEN [files |-> IF put_strategy = "link"
                             THEN link(fl, src, filepath, linked)
                             ELSE copy(fl, src, filepath),
                   dirs |-> makepath(ds, DirName(filepath)),
                   res |-> address]
             ELSE [files |-> fl, dirs |-> ds, res |-> address]

\* A put that makes the directories of the target also when it simulates.
put_SimulateMakesPath(fl, ds, src, extension, put_strategy, simulate, linked) ==
    IF ~StreamOk(fl, src)
    THEN [files |-> fl, dirs |-> ds, res |-> Raised("ValueError")]
    ELSE LET id == computehash(StreamData(fl, src))
             filepath == idpath(id, extension)
             is_duplicate == IsFileIn(fl, filepath)
             address == HashAddress(id, relpath(filepath), filepath, is_duplicate)
         IN  IF ~is_duplicate
             THEN [files |-> IF simulate THEN fl
                             ELSE IF put_strategy = "link"
                             THEN link(fl, src, filepath, linked)
                             ELSE copy(fl, src, filepath),
                   dirs |-> makepath(ds, DirName(filepath)),
                   res |-> address]
             ELSE [files |-> fl, dirs |-> ds, res |-> address]

\* A put that makes its temporary file before it looks at the source.
put_TempFirst(fl, ds, src, extension, put_strategy, simulate, linked) ==
    IF ~StreamOk(fl, src)
    THEN [files |-> WriteFile(fl, Join2(TmpDir, <<"1">>), <<>>, fmode), dirs |-> ds,
          res |-> Raised("ValueError")]
    ELSE LET id == computehash(StreamData(fl, src))
             filepath == idpath(id, extension)
             is_duplicate == IsFileIn(fl, filepath)
             address == HashAddress(id, relpath(filepath), filepath, is_duplicate)
         IN  IF ~is_duplicate /\ ~simulate
             THEN [files |-> IF put_strategy = "link"
                             THEN link(fl, src, filepath, linked)
                             ELSE copy(fl, src, filepath),
                   dirs |-> makepath(ds, DirName(filepath)),
                   res |-> address]
             ELSE [files |-> fl, dirs |-> ds, res |-> address]

\* HashFS.put: the filesystem it leaves and what it returns.
put(fl, ds, src, extension, put_strategy, simulate, linked) ==
    IF ~StreamOk(fl, src)
    THEN [files |-> fl, dirs |-> ds, res |-> Raised("ValueError")]
    ELSE LET id == computehash(StreamData(fl, src))
             filepath == idpath(id, extension)
             is_duplicate == IsFileIn(fl, filepath)
             address == HashAddress(id, relpath(filepath), filepath, is_duplicate)
         IN  IF ~is_duplicate /\ ~simulate
             THEN [files |-> IF put_strategy = "link"
                             THEN link(fl, src, filepath, linked)
                             ELSE copy(fl, src, filepath),
                   dirs |-> makepath(ds, DirName(filepath)),
                   res |-> address]
             ELSE [files |-> fl, dirs |-> ds, res |-> address]

(***************************************************************************)
(* get, exists, open.                                                      *)
(***************************************************************************)
\* HashFS.get for one outcome of realpath.
get(rp) ==
    IF ~rp.found THEN NoneResult
    ELSE IF unshard(rp.path).kind = "ValueError" THEN Raised("ValueError")
    ELSE HashAddress(unshard(rp.path).value, relpath(rp.path), rp.path, FALSE)

\* HashFS.exists for one outcome of realpath: bool(realpath).
exists(rp) == rp.found /\ rp.path # <<>>

\* An open that answers an unresolved identifier with None.
open_NoneForMissing(fl, rp) ==
    IF ~rp.found \/ ~IsFileIn(fl, rp.path) THEN NoneResult
    ELSE Returned(fl[AbsPath(rp.path)].data)

\* HashFS.open for one outcome of realpath, read to the end.
open(fl, rp) ==
    IF ~rp.found THEN Raised("IOError")
    ELSE IF ~IsFileIn(fl, rp.path) THEN Raised("IOError")
    ELSE Returned(fl[AbsPath(rp.path)].data)

(***************************************************************************)
(* delete.                                                                 *)
(***************************************************************************)
\* A walk that does not stop at symbolic links.
RECURSIVE RemoveEmptyLoop_ThroughLinks(_, _, _)
RemoveEmptyLoop_ThroughLinks(fl, ds, subpath) ==
    IF subpath = Root THEN ds
    ELSE IF ListDir(fl, ds, subpath) # {} THEN ds
    ELSE RemoveEmptyLoop_ThroughLinks(fl, ds \ {AbsPath(subpath)}, DirName(subpath))

\* The loop of HashFS.remove_empty, from directory subpath upward: the
\* directories left.
RECURSIVE RemoveEmptyLoop(_, _, _)
RemoveEmptyLoop(fl, ds, subpath) ==
    IF subpath = Root THEN ds
    ELSE IF ListDir(fl, ds, subpath) # {} \/ AbsPath(subpath) \in links THEN ds
    ELSE RemoveEmptyLoop(fl, ds \ {AbsPath(subpath)}, DirName(subpath))

\* A remove_empty that looks at the directory it is given and no further up.
remove_empty_OneLevel(fl, ds, subpath) ==
    IF haspath(subpath) /\ subpath # Root /\ ListDir(fl, ds, subpath) = {}
       /\ AbsPath(subpath) \notin links
    THEN ds \ {AbsPath(subpath)}
    ELSE ds

\* HashFS.remove_empty.
remove_empty(fl, ds, subpath) ==
    IF ~haspath(subpath) THEN ds ELSE RemoveEmptyLoop(fl, ds, subpath)

\* A delete that hands an unresolved identifier on to os.remove.
delete_Unguarded(fl, ds, rp) ==
    IF ~rp.found \/ ~IsFileIn(fl, rp.path)
    THEN [files |-> fl, dirs |-> ds, res |-> Raised("TypeError")]
    ELSE [files |-> RemoveFile(fl, rp.path),
          dirs |-> remove_empty(RemoveFile(fl, rp.path), ds, DirName(rp.path)),
          res |-> NoneResult]

\* HashFS.delete for one outcome of realpath: the filesystem it leaves and
\* how it ends.  An OSError of os.remove (the path is no file) is swallowed.
delete(fl, ds, rp) ==
    IF ~rp.found THEN [files |-> fl, dirs |-> ds, res |-> NoneResult]
    ELSE IF ~IsFileIn(fl, rp.path) THEN [files |-> fl, dirs |-> ds, res |-> NoneResult]
    ELSE [files |-> RemoveFile(fl, rp.path),
          dirs |-> remove_empty(RemoveFile(fl, rp.path), ds, DirName(rp.path)),
          res |-> NoneResult]

(***************************************************************************)
(* files, corrupted, repair.                                               *)
(***************************************************************************)
\* The orders in which the members of a set may be listed.
RECURSIVE Perms(_)
Perms(S) ==
    IF S = {} THEN {<<>>}
    ELSE UNION {{<<x>> \o rest : rest \in Perms(S \ {x})} : x \in S}

\* walk(top), top down: the files of a folder in the order the directory
\* lists them, then its subfolders one after the other; a folder that is a
\* symbolic link is not entered.  The value is the set of the orders in which
\* the files may be yielded.
RECURSIVE walk(_, _, _)
RECURSIVE WalkEach(_, _, _)
walk(fl, ds, top) ==
    LET entries == ListDir(fl, ds, top)
        here == entries \cap (DOMAIN fl)
        subfolders == (entries \cap ds) \ links
    IN  {first \o rest :
            first \in Perms(here),
            rest \in UNION {WalkEach(fl, ds, order) : order \in Perms(subfolders)}}
WalkEach(fl, ds, order) ==
    IF order = <<>> THEN {<<>>}
    ELSE {a \o b : a \in walk(fl, ds, Head(order)),
                   b \in WalkEach(fl, ds, Tail(order))}

\* HashFS.files (find_files(root, recursive=True)): the orders in which the
\* files under the root may be yielded.
find_files(fl, ds) == walk(fl, ds, Root)

\* HashFS.corrupted(extensions=True) over the files in the given order: the
\* (path, address) pairs of the files that are not where their content and
\* extension put them.
RECURSIVE corrupted(_, _)
corrupted(fl, order) ==
    IF order = <<>> THEN <<>>
    ELSE LET path == Head(order)
             id == computehash(fl[path].data)
             extension == SplitExt(path)[2]
             expected_path == idpath(id, extension)
         IN  (IF expected_path # path
              THEN <<[path |-> path,
                      address |-> HashAddress(id, relpath(expected_path),
                                              expected_path, FALSE)]>>
              ELSE <<>>)
             \o corrupted(fl, Tail(order))

\* The loop of HashFS.repair over the corrupted entries: the stray file is
\* removed when a file is at the expected path and moved there otherwise;
\* the file at the expected path gets mode fmode.
RECURSIVE RepairLoop(_, _, _)
RepairLoop(fl, ds, todo) ==
    IF todo = <<>> THEN [files |-> fl, dirs |-> ds]
    ELSE LET path == Head(todo).path
             abspath == Head(todo).address.abspath
             there == IsFileIn(fl, abspath)
             placed == IF there THEN RemoveFile(fl, path)
                       ELSE WriteFile(RemoveFile(fl, path), abspath,
                                      fl[path].data, fl[path].mode)
         IN  RepairLoop([placed EXCEPT ![abspath].mode = fmode],
                        IF there THEN ds ELSE makepath(ds, DirName(abspath)),
                        Tail(todo))

\* HashFS.repair, for one order of the scan: the filesystem it leaves and
\* the list it returns.
repair(fl, ds, order) ==
    LET todo == corrupted(fl, order)
        out == RepairLoop(fl, ds, todo)
    IN  [files |-> out.files, dirs |-> out.dirs, res |-> Returned(todo)]

(***************************************************************************)
(* The calls, one caller at a time.                                        *)
(***************************************************************************)
Snapshot == [files |-> files, dirs |-> dirs]
Idle == [op |-> "idle"]

Put(src, extension, put_strategy, simulate, linked) ==
    /\ last = Idle
    /\ src.kind = "handle" => isfile(src.path)
    /\ LET out == put(files, dirs, src, extension, put_strategy, simulate, linked)
       IN  /\ files' = out.files
           /\ dirs' = out.dirs
           /\ last' = [op |-> "put",
                       call |-> [src |-> src, extension |-> extension,
                                 put_strategy |-> put_strategy,
                                 simulate |-> simulate],
                       res |-> out.res]
    /\ pre' = Snapshot
    /\ UNCHANGED <<links, proc>>

Get(file) ==
    /\ last = Idle
    /\ \E rp \in realpath(files, dirs, file) :
          last' = [op |-> "get", call |-> [file |-> file], res |-> get(rp)]
    /\ pre' = Snapshot
    /\ UNCHANGED <<files, dirs, links, proc>>

Exists(file) ==
    /\ last = Idle
    /\ \E rp \in realpath(files, dirs, file) :
          last' = [op |-> "exists", call |-> [file |-> file],
                   res |-> Returned(exists(rp))]
    /\ pre' = Snapshot
    /\ UNCHANGED <<files, dirs, links, proc>>

Open(file) ==
    /\ last = Idle
    /\ \E rp \in realpath(files, dirs, file) :
          last' = [op |-> "open", call |-> [file |-> file],
                   res |-> open(files, rp)]
    /\ pre' = Snapshot
    /\ UNCHANGED <<files, dirs, links, proc>>

Delete(file) ==
    /\ last = Idle
    /\ \E rp \in realpath(files, dirs, file) :
          LET out == delete(files, dirs, rp)
          IN  /\ files' = out.files
              /\ dirs' = out.dirs
              /\ last' = [op |-> "delete", call |-> [file |-> file, realpath |-> rp],
                          res |-> out.res]
    /\ pre' = Snapshot
    /\ UNCHANGED <<links, proc>>

\* The caller takes the result; the store is ready for the next call.
Return ==
    /\ last # Idle
    /\ last' = Idle
    /\ pre' = Snapshot
    /\ UNCHANGED <<files, dirs, links, proc>>

\* The callers that may run at the same time.
Procs == {1, 2}

\* A caller that is in no call.
NoCall ==
    [pc |-> "idle", src |-> [kind |-> "none"], put_strategy |-> "copy",
     data |-> <<>>, filepath |-> <<>>, off |-> 0, found |-> FALSE,
     res |-> NoneResult]

\* The first shard directory of the caller's content, which the store may
\* find in place as a symbolic link to a directory.
LinkDir == Join2(Root, Slice(computehash(UserData), 0, 1))

Init ==
    /\ files = WriteFile(<<>>, UserFile, UserData, UserMode)
    /\ links \in {{}, {LinkDir}}
    /\ dirs = {<<Sep>>, Root, TmpDir, Cwd} \cup links
    /\ last = Idle
    /\ pre = [files |-> files, dirs |-> dirs]
    /\ proc = [p \in Procs |-> NoCall]

Next ==
    \/ \E src \in Sources, e \in Extensions, st \in Strategies, sim \in BOOLEAN :
          \E linked \in (IF st = "link" THEN BOOLEAN ELSE {FALSE}) :
              Put(src, e, st, sim, linked)
    \/ \E file \in Identifiers : Get(file)
    \/ \E file \in Identifiers : Exists(file)
    \/ \E file \in Identifiers : Open(file)
    \/ \E file \in Identifiers : Delete(file)
    \/ Return

Spec == Init /\ [][Next]_vars

(***************************************************************************)
(* put, step by step, for callers that run at the same time.  Each step is *)
(* one filesystem operation of put and of the strategy it calls; steps of  *)
(* different callers interleave.                                           *)
(***************************************************************************)
\* NamedTemporaryFile(delete=False): a fresh name in the temporary directory.
Tmp(p) == Join2(TmpDir, IF p = 1 THEN <<"1">> ELSE <<"2">>)

\* What the concurrent callers put: a text and a file with the same bytes,
\* and a path that names no file; all without an extension.
ConcSources ==
    {[kind |-> "text", text |-> <<233>>],
     [kind |-> "path", path |-> UserFile],
     [kind |-> "path", path |-> <<"f", "o", "o">>]}
ConcExtensions == {<<>>}

\* A write of one byte at offset off of a file's data (holes read as zero).
RECURSIVE WriteAt(_, _, _)
WriteAt(data, off, b) ==
    IF Len(data) > off THEN [data EXCEPT ![off + 1] = b]
    ELSE IF Len(data) = off THEN Append(data, b)
    ELSE WriteAt(Append(data, 0), off, b)

\* A caller's put ends: what it returns or raises.
Finish(p, res) == [proc EXCEPT ![p].pc = "done", ![p].res = res]

\* put, up to the duplicate check: the Stream is built, the content hashed,
\* the target path computed and tested.
CPutStart(p, src, extension, put_strategy) ==
    /\ proc[p].pc = "idle"
    /\ src.kind = "handle" => isfile(src.path)
    /\ IF ~StreamOk(files, src)
       THEN proc' = [proc EXCEPT ![p] = [NoCall EXCEPT !.pc = "done", !.src = src,
                                            !.res = Raised("ValueError")]]
       ELSE LET data == StreamData(files, src)
                id == computehash(data)
                filepath == idpath(id, extension)
                is_duplicate == isfile(filepath)
            IN  proc' = [proc EXCEPT ![p] =
                    [pc |-> IF is_duplicate THEN "done" ELSE "makepath",
                     src |-> src, put_strategy |-> put_strategy,
                     data |-> data, filepath |-> filepath, off |-> 0,
                     found |-> FALSE,
                     res |-> HashAddress(id, relpath(filepath), filepath,
                                         is_duplicate)]]
    /\ UNCHANGED <<files, dirs, links, last, pre>>

\* put: the directories of the target are made; the strategy is chosen.
CMakepath(p) ==
    /\ proc[p].pc = "makepath"
    /\ dirs' = makepath(dirs, DirName(proc[p].filepath))
    /\ proc' = [proc EXCEPT ![p].pc =
                   IF proc[p].put_strategy = "link" /\ StreamName(proc[p].src) # <<>>
                   THEN "link" ELSE "mktemp"]
    /\ UNCHANGED <<files, links, last, pre>>

\* PutStrategies.link: os.link and os.chmod; os.link raises when the target
\* is there, and on EMLINK, EXDEV or EPERM the strategy copies instead.
CLink(p, linked) ==
    /\ proc[p].pc = "link"
    /\ IF ~linked
       THEN /\ proc' = [proc EXCEPT ![p].pc = "mktemp"]
            /\ UNCHANGED files
       ELSE IF isfile(proc[p].filepath)
       THEN /\ proc' = [Finish(p, Raised("FileExistsError")) EXCEPT ![p].found = TRUE]
            /\ UNCHANGED files
       ELSE /\ files' = WriteFile(WriteFile(files, proc[p].filepath, proc[p].data, fmode),
                                  StreamName(proc[p].src), proc[p].data, fmode)
            /\ proc' = [proc EXCEPT ![p].pc = "done"]
    /\ UNCHANGED <<dirs, links, last, pre>>

\* HashFS._mktempfile: the temporary file, with mode fmode, holds the data.
CMkTemp(p) ==
    /\ proc[p].pc = "mktemp"
    /\ files' = WriteFile(files, Tmp(p), proc[p].data, fmode)
    /\ proc' = [proc EXCEPT ![p].pc = "move"]
    /\ UNCHANGED <<dirs, links, last, pre>>

\* HashFS._mktempfile when a write to the temporary file fails (disk full,
\* I/O error): the file is there, not yet written, and put raises.
CMkTempFail(p) ==
    /\ proc[p].pc = "mktemp"
    /\ files' = WriteFile(files, Tmp(p), <<>>, fmode)
    /\ proc' = Finish(p, Raised("IOError"))
    /\ UNCHANGED <<dirs, links, last, pre>>

\* shutil.move when os.rename succeeds (the directory of the target is
\* there): the temporary file takes the target name, replacing a file that
\* is there.
CMoveRename(p) ==
    /\ proc[p].pc = "move"
    /\ DirName(proc[p].filepath) \in dirs
    /\ files' = WriteFile(RemoveFile(files, Tmp(p)), proc[p].filepath,
                          files[Tmp(p)].data, files[Tmp(p)].mode)
    /\ proc' = [proc EXCEPT ![p].pc = "done",
                            ![p].found = isfile(proc[p].filepath)]
    /\ UNCHANGED <<dirs, links, last, pre>>

\* shutil.move when os.rename fails (the temporary directory is on another
\* filesystem): the target is opened for writing, which creates it or
\* truncates it.
CMoveCopyOpen(p) ==
    /\ proc[p].pc = "move"
    /\ DirName(proc[p].filepath) \in dirs
    /\ files' = WriteFile(files, proc[p].filepath, <<>>,
                          IF isfile(proc[p].filepath)
                          THEN files[proc[p].filepath].mode ELSE UserMode)
    /\ proc' = [proc EXCEPT ![p].pc = "copying",
                            ![p].found = isfile(proc[p].filepath)]
    /\ UNCHANGED <<dirs, links, last, pre>>

\* shutil.move, copying: the next byte of the temporary file is written.
CMoveCopyWrite(p) ==
    /\ proc[p].pc = "copying"
    /\ proc[p].off < Len(files[Tmp(p)].data)
    /\ files' = [files EXCEPT ![proc[p].filepath].data =
                    WriteAt(@, proc[p].off, files[Tmp(p)].data[proc[p].off + 1])]
    /\ proc' = [proc EXCEPT ![p].off = @ + 1]
    /\ UNCHANGED <<dirs, links, last, pre>>

\* shutil.move, after the last byte: the mode is copied and the temporary
\* file is removed.
CMoveCopyDone(p) ==
    /\ proc[p].pc = "copying"
    /\ proc[p].off = Len(files[Tmp(p)].data)
    /\ files' = RemoveFile([files EXCEPT ![proc[p].filepath].mode = files[Tmp(p)].mode],
                           Tmp(p))
    /\ proc' = [proc EXCEPT ![p].pc = "done"]
    /\ UNCHANGED <<dirs, links, last, pre>>

\* A write of the copy fails (disk full, I/O error): put raises.
CMoveFail(p) ==
    /\ proc[p].pc = "copying"
    /\ proc[p].off < Len(files[Tmp(p)].data)
    /\ proc' = Finish(p, Raised("IOError"))
    /\ UNCHANGED <<files, dirs, links, last, pre>>

\* The caller takes the result.
CReturn(p) ==
    /\ proc[p].pc = "done"
    /\ proc' = [proc EXCEPT ![p] = NoCall]
    /\ UNCHANGED <<files, dirs, links, last, pre>>

ConcNext ==
    \/ \E p \in Procs, src \in ConcSources, e \in ConcExtensions, st \in Strategies :
          CPutStart(p, src, e, st)
    \/ \E p \in Procs : CMakepath(p)
    \/ \E p \in Procs, linked \in BOOLEAN : CLink(p, linked)
    \/ \E p \in Procs : CMkTemp(p)
    \/ \E p \in Procs : CMkTempFail(p)
    \/ \E p \in Procs : CMoveRename(p)
    \/ \E p \in Procs : CMoveCopyOpen(p)
    \/ \E p \in Procs : CMoveCopyWrite(p)
    \/ \E p \in Procs : CMoveCopyDone(p)
    \/ \E p \in Procs : CMoveFail(p)
    \/ \E p \in Procs : CReturn(p)

ConcSpec == Init /\ [][ConcNext]_vars

(***************************************************************************)
(* A store in which files get misplaced, and its repair.                   *)
(***************************************************************************)
\* Where a file may be dropped by hand: directly under the root, in a
\* folder of its own with an extension, and at the path of a stored object.
StrayPaths ==
    {Join2(Root, <<"s">>),
     JoinAll(Root, <<<<"b">>, <<"s", ".", "t">>>>),
     idpath(computehash(<<97>>), <<>>)}

\* A file with the given bytes appears at the path (a manual drop, or the
\* bytes of a stored file changing under it).
Misplace(path, data) ==
    /\ last = Idle
    /\ files' = WriteFile(files, path, data, UserMode)
    /\ dirs' = makepath(dirs, DirName(path))
    /\ pre' = [files |-> files', dirs |-> dirs']
    /\ UNCHANGED <<links, last, proc>>

Repair ==
    /\ last = Idle
    /\ \E order \in find_files(files, dirs) :
          LET out == repair(files, dirs, order)
          IN  /\ files' = out.files
              /\ dirs' = out.dirs
              /\ last' = [op |-> "repair", call |-> [order |-> order],
                          res |-> out.res]
    /\ pre' = Snapshot
    /\ UNCHANGED <<links, proc>>

\* The puts of this store: texts, by copy, with no extension or ".t".
RepairNext ==
    \/ \E t \in Texts, e \in {<<>>, <<".", "t">>} :
          Put([kind |-> "text", text |-> t], e, "copy", FALSE, FALSE)
    \/ \E path \in StrayPaths, data \in Contents : Misplace(path, data)
    \/ Repair
    \/ Return

RepairSpec == Init /\ [][RepairNext]_vars

(***************************************************************************)
(* shard and unshard on their own, over every small digest and every       *)
(* configuration of depth and width.                                       *)
(***************************************************************************)
\* The hex strings of a given length (the digits a and b stand for all).
RECURSIVE HexStrings(_)
HexStrings(n) ==
    IF n = 0 THEN {<<>>}
    ELSE {<<c>> \o rest : c \in {"a", "b"}, rest \in HexStrings(n - 1)}
Digests == UNION {HexStrings(n) : n \in 1..MaxShardLen}

Shard(digest, d, w) ==
    /\ last = Idle
    /\ last' = [op |-> "shard",
                call |-> [digest |-> digest, depth |-> d, width |-> w],
                res |-> Returned(shard(digest, d, w))]
    /\ pre' = Snapshot
    /\ UNCHANGED <<files, dirs, links, proc>>

\* unshard of the root joined with the segments shard has just returned.
Unshard ==
    /\ last.op = "shard"
    /\ LET path == JoinAll(Root, last.res.value)
       IN  last' = [op |-> "unshard",
                    call |-> [digest |-> last.call.digest, depth |-> last.call.depth,
                              width |-> last.call.width, path |-> path],
                    res |-> unshard(path)]
    /\ pre' = Snapshot
    /\ UNCHANGED <<files, dirs, links, proc>>

ShardNext ==
    \/ \E digest \in Digests, d \in 0..MaxDepth, w \in 1..MaxWidth : Shard(digest, d, w)
    \/ Unshard
    \/ Return

ShardSpec == Init /\ [][ShardNext]_vars

(***************************************************************************)
(* put and delete by two callers, delete step by step.                     *)
(***************************************************************************)
\* Two contents whose digests share both shard directories; the callers
\* put either and delete the second.
StoredText == <<97>>
DeletedText == <<99>>
RaceSources == {[kind |-> "text", text |-> t] : t \in {StoredText, DeletedText}}

\* shutil.move when the directory of the target is gone: os.rename fails,
\* the copy cannot open the target, and put raises; the temporary file stays.
CMoveNoDir(p) ==
    /\ proc[p].pc = "move"
    /\ DirName(proc[p].filepath) \notin dirs
    /\ proc' = Finish(p, Raised("FileNotFoundError"))
    /\ UNCHANGED <<files, dirs, links, last, pre>>

\* delete, up to os.remove: realpath resolves the identifier; delete
\* returns when it resolves to nothing.
CDeleteStart(p, file) ==
    /\ proc[p].pc = "idle"
    /\ \E rp \in realpath(files, dirs, file) :
          proc' = [proc EXCEPT ![p] =
                      [NoCall EXCEPT !.pc = IF rp.found THEN "remove" ELSE "done",
                                     !.src = [kind |-> "id", file |-> file],
                                     !.filepath = rp.path]]
    /\ UNCHANGED <<files, dirs, links, last, pre>>

\* delete: os.remove, whose OSError is swallowed; then remove_empty starts
\* at the file's directory, if that is under the root.
CRemove(p) ==
    /\ proc[p].pc = "remove"
    /\ IF isfile(proc[p].filepath)
       THEN /\ files' = RemoveFile(files, proc[p].filepath)
            /\ proc' = [proc EXCEPT
                           ![p].pc = IF haspath(DirName(proc[p].filepath))
                                     THEN "listdir" ELSE "done",
                           ![p].filepath = DirName(proc[p].filepath)]
       ELSE /\ proc' = [proc EXCEPT ![p].pc = "done"]
            /\ UNCHANGED files
    /\ UNCHANGED <<dirs, links, last, pre>>

\* remove_empty: the test of the loop; os.listdir raises when the directory
\* is gone.
CListdir(p) ==
    /\ proc[p].pc = "listdir"
    /\ LET subpath == proc[p].filepath
       IN  proc' = IF subpath = Root THEN [proc EXCEPT ![p].pc = "done"]
                   ELSE IF AbsPath(subpath) \notin dirs
                   THEN Finish(p, Raised("OSError"))
                   ELSE IF ListDir(files, dirs, subpath) # {}
                           \/ AbsPath(subpath) \in links
                   THEN [proc EXCEPT ![p].pc = "done"]
                   ELSE [proc EXCEPT ![p].pc = "rmdir"]
    /\ UNCHANGED <<files, dirs, links, last, pre>>

\* remove_empty: os.rmdir, which raises when the directory is gone or has
\* an entry by now; then one directory up.
CRmdir(p) ==
    /\ proc[p].pc = "rmdir"
    /\ LET subpath == proc[p].filepath
       IN  IF AbsPath(subpath) \notin dirs \/ ListDir(files, dirs, subpath) # {}
           THEN /\ proc' = Finish(p, Raised("OSError"))
                /\ UNCHANGED dirs
           ELSE /\ dirs' = dirs \ {AbsPath(subpath)}
                /\ proc' = [proc EXCEPT ![p].pc = "listdir",
                                        ![p].filepath = DirName(subpath)]
    /\ UNCHANGED <<files, links, last, pre>>

RaceNext ==
    \/ \E p \in Procs, src \in RaceSources : CPutStart(p, src, <<>>, "copy")
    \/ \E p \in Procs : CMakepath(p)
    \/ \E p \in Procs : CMkTemp(p)
    \/ \E p \in Procs : CMoveRename(p)
    \/ \E p \in Procs : CMoveNoDir(p)
    \/ \E p \in Procs : CDeleteStart(p, computehash(to_bytes(DeletedText)))
    \/ \E p \in Procs : CRemove(p)
    \/ \E p \in Procs : CListdir(p)
    \/ \E p \in Procs : CRmdir(p)
    \/ \E p \in Procs : CReturn(p)

RaceSpec == Init /\ [][RaceNext]_vars

(***************************************************************************)
(* put of readable objects that stand at some position.                    *)
(***************************************************************************)
\* An open handle on the caller's file and a text buffer, at every position.
PositionedSources ==
    {[kind |-> "handle", path |-> UserFile, pos |-> p] : p \in 0..MaxPos}
    \cup {[kind |-> "text", text |-> <<233>>, pos |-> p] : p \in 0..MaxPos}

\* put, with what it does to the object it reads: computehash iterates the
\* Stream, the strategy iterates it again when it copies, and put closes it.
StreamPut(src, extension, put_strategy, simulate, linked) ==
    /\ last = Idle
    /\ src.kind = "handle" => isfile(src.path)
    /\ LET out == put(files, dirs, src, extension, put_strategy, simulate, linked)
           copies == /\ ~out.res.is_duplicate /\ ~simulate
                     /\ (put_strategy = "copy" \/ StreamName(src) = <<>> \/ ~linked)
           hashed == StreamIter(files, src, Opened(src)).handle
           copied == IF copies THEN StreamIter(files, src, hashed).handle ELSE hashed
       IN  /\ files' = out.files
           /\ dirs' = out.dirs
           /\ last' = [op |-> "put",
                       call |-> [src |-> src, extension |-> extension,
                                 put_strategy |-> put_strategy,
                                 simulate |-> simulate],
                       res |-> out.res,
                       handle |-> StreamClose(src, copied)]
    /\ pre' = Snapshot
    /\ UNCHANGED <<links, proc>>

\* put when a write to the temporary file fails: the content was hashed, the
\* directories are made, the second iteration has read the object to its
\* end; put closes the Stream and raises.
StreamPutFails(src, extension) ==
    /\ last = Idle
    /\ src.kind = "handle" => isfile(src.path)
    /\ LET filepath == idpath(computehash(StreamData(files, src)), extension)
           hashed == StreamIter(files, src, Opened(src)).handle
       IN  /\ ~isfile(filepath)
           /\ files' = WriteFile(files, Join2(TmpDir, <<"1">>), <<>>, fmode)
           /\ dirs' = makepath(dirs, DirName(filepath))
           /\ last' = [op |-> "put",
                       call |-> [src |-> src, extension |-> extension,
                                 put_strategy |-> "copy", simulate |-> FALSE],
                       res |-> Raised("IOError"),
                       handle |-> StreamClose(src, Seek(hashed, StreamLen(files, src)))]
    /\ pre' = Snapshot
    /\ UNCHANGED <<links, proc>>

StreamNext ==
    \/ \E src \in PositionedSources, e \in Extensions, st \in Strategies,
          sim \in BOOLEAN, linked \in BOOLEAN : StreamPut(src, e, st, sim, linked)
    \/ \E src \in PositionedSources, e \in Extensions : StreamPutFails(src, e)
    \/ \E b \in Contents : Delete(computehash(b))
    \/ Return

StreamSpec == Init /\ [][StreamNext]_vars

(***************************************************************************)
(* Vocabulary of the properties.                                           *)
(***************************************************************************)
\* The files under the root of filesystem fl that hold the given bytes.
Holding(fl, bytes) == {k \in DOMAIN fl : issubdir(k, Root) /\ fl[k].data = bytes}

\* The bytes a source stands for, written out: the UTF-8 encoding of a text,
\* the bytes of the caller's file.
BytesOf(src) ==
    IF src.kind = "text"
    THEN (IF src.text = <<233>> THEN <<195, 169>> ELSE src.text)
    ELSE UserData

\* A put that has just returned an Address after storing for real.
PutReturned == last.op = "put" /\ last.res.kind = "address" /\ ~last.call.simulate

\* The same put call again, on the store as it is now.
PutAgain(src, extension, put_strategy, linked) ==
    put(files, dirs, src, extension, put_strategy, FALSE, linked)

\* A source the caller can hand to put now: a text, or a file that is there.
Available(src) == src.kind = "text" \/ isfile(src.path)

\* C1: Idempotent put.  When a put of content c, not stored before, has
\* returned, it reports is_duplicate = false, and the same put call made
\* again (any strategy) returns the same id and abspath with is_duplicate =
\* true and leaves exactly one file holding c under the root.
C1_IdempotentPut ==
    (PutReturned /\ Holding(pre.files, BytesOf(last.call.src)) = {})
    => /\ ~last.res.is_duplicate
       /\ \A st \in Strategies, linked \in BOOLEAN :
             LET second == PutAgain(last.call.src, last.call.extension, st, linked)
             IN  /\ second.res.kind = "address"
                 /\ second.res.id = last.res.id
                 /\ second.res.abspath = last.res.abspath
                 /\ second.res.is_duplicate
                 /\ Cardinality(Holding(second.files, BytesOf(last.call.src))) = 1

\* C1's case: a first put of new content with an extension, by link, returned.
C1_Witness ==
    /\ PutReturned
    /\ Holding(pre.files, BytesOf(last.call.src)) = {}
    /\ last.call.extension = <<"t">>
    /\ last.call.put_strategy = "link"
    /\ last.call.src.kind = "path"
    /\ PutAgain(last.call.src, last.call.extension, "copy", FALSE).res.is_duplicate

\* C2: Content integrity.  After put(c) returned an Address, from whatever
\* kind of source, extension and strategy, open(address.id) read to the end
\* returns exactly the bytes of c, whichever match realpath takes.
C2_ContentIntegrity ==
    PutReturned
    => \A rp \in realpath(files, dirs, last.res.id) :
          open(files, rp) = Returned(BytesOf(last.call.src))

\* C2's case: a text that is not ASCII was stored with an extension and is
\* read back through its digest.
C2_Witness ==
    /\ PutReturned
    /\ last.call.src = [kind |-> "text", text |-> <<233>>]
    /\ last.call.extension = <<"t", ".", "g">>
    /\ ~last.res.is_duplicate
    /\ \E rp \in realpath(files, dirs, last.res.id) :
          open(files, rp) = Returned(<<195, 169>>)

\* C3 as stated: after a put of some bytes, any put of the same bytes, with
\* whatever extension argument, returns the same abspath and leaves a single
\* stored file holding them.
C3_AnyExtensionSamePath ==
    PutReturned
    => \A src \in Sources, e \in Extensions, st \in Strategies, linked \in BOOLEAN :
          (Available(src) /\ BytesOf(src) = BytesOf(last.call.src))
          => LET second == PutAgain(src, e, st, linked)
             IN  /\ second.res.abspath = last.res.abspath
                 /\ Cardinality(Holding(second.files, BytesOf(src))) = 1

\* An extension argument with the separator it is stored with.
Dotted(e) == IF e = <<>> \/ e[1] = ExtSep THEN e ELSE <<ExtSep>> \o e

\* C3, amended: after a put of some bytes, any put of the same bytes (from
\* any kind of source, by any strategy) whose extension argument is the same
\* up to its leading separator returns the same abspath, is a duplicate and
\* stores no further file.
C3_SameExtensionSamePath ==
    PutReturned
    => \A src \in Sources, e \in Extensions, st \in Strategies, linked \in BOOLEAN :
          (/\ Available(src)
           /\ BytesOf(src) = BytesOf(last.call.src)
           /\ Dotted(e) = Dotted(last.call.extension))
          => LET second == PutAgain(src, e, st, linked)
             IN  /\ second.res.kind = "address"
                 /\ second.res.abspath = last.res.abspath
                 /\ second.res.is_duplicate
                 /\ second.files = files

\* C3's case: a text was stored with extension "t"; the caller's file holds
\* the same bytes and is put with extension ".t".
C3_Witness ==
    /\ PutReturned
    /\ last.call.src = [kind |-> "text", text |-> <<233>>]
    /\ last.call.extension = <<"t">>
    /\ ~last.res.is_duplicate
    /\ isfile(UserFile)
    /\ PutAgain([kind |-> "path", path |-> UserFile], <<".", "t">>, "link", TRUE)
          .res.abspath = last.res.abspath

\* C4 as stated: for the Address a that put returned, get(a.id),
\* get(a.relpath) and get(a.abspath) return Addresses with a's id and abspath.
C4_ResolutionEquivalence ==
    PutReturned
    => \A x \in {last.res.id, last.res.relpath, last.res.abspath} :
          \A rp \in realpath(files, dirs, x) :
             /\ get(rp).kind = "address"
             /\ get(rp).id = last.res.id
             /\ get(rp).abspath = last.res.abspath

\* A caller that is inside a put whose target path is computed.
InPut(p) == proc[p].pc # "idle" /\ proc[p].filepath # <<>>

\* C5 as stated: in every state of a put, whatever the other callers do and
\* also after a failure of the publish step, the target path holds no file
\* or a file with the complete content.
C5_AtomicPublish ==
    \A p \in Procs :
       (InPut(p) /\ isfile(proc[p].filepath))
       => files[proc[p].filepath].data = proc[p].data

\* C6 as stated: a put that reached its publish step when the target was
\* already there (and met no I/O failure) does not raise, returns
\* is_duplicate = true and leaves no temporary file.
C6_LateWriterIsDuplicate ==
    \A p \in Procs :
       (proc[p].pc = "done" /\ proc[p].found /\ proc[p].res # Raised("IOError"))
       => /\ proc[p].res.kind = "address"
          /\ proc[p].res.is_duplicate
          /\ ~isfile(Tmp(p))

\* A delete that has just returned, and the path it resolved.
DeleteReturned == last.op = "delete"
Resolved == last.call.realpath.found
Target == AbsPath(last.call.realpath.path)

\* The directories between path p and the root, the root excluded.
Below(p) == {d \in Ancestors(DirName(p)) : issubdir(d, Root)}

C8_DeleteMissingIsNoOp ==
    (DeleteReturned /\ realpath(pre.files, pre.dirs, last.call.file) = {NoPath})
    => /\ last.res = NoneResult
       /\ files = pre.files
       /\ dirs = pre.dirs

\* C8's case: a delete of a name that names nothing, on a store that holds
\* files.
C8_Witness ==
    /\ DeleteReturned
    /\ last.call.file = <<"z", "z">>
    /\ \E k \in DOMAIN files : issubdir(k, Root)

\* The same delete call again, on the store as it is now.
DeleteAgain(rp) == delete(files, dirs, rp)

\* C9 as stated: after delete(x) returned, x no longer resolves, and a
\* second delete(x) changes nothing.
C9_DeleteIdempotent ==
    DeleteReturned
    => \A rp \in realpath(files, dirs, last.call.file) :
          /\ ~exists(rp)
          /\ DeleteAgain(rp).files = files
          /\ DeleteAgain(rp).dirs = dirs

\* The stored files identifier x matched before the call, by any form.
Matches(x) ==
    {AbsPath(k) : k \in {p \in {x, Join2(Root, x), idpath(x, <<>>)} :
                            IsFileIn(pre.files, p)}
                       \cup GlobExt(pre.files, pre.dirs, idpath(x, <<>>))}

\* C9, amended: after delete(x) returned, the file x resolved to is gone; and
\* when x matched no other file, x no longer resolves and a second delete(x)
\* changes nothing.
C9_DeleteIdempotentSingleMatch ==
    (DeleteReturned /\ Resolved)
    => /\ ~isfile(Target)
       /\ Matches(last.call.file) \subseteq {Target}
          => \A rp \in realpath(files, dirs, last.call.file) :
                /\ ~exists(rp)
                /\ DeleteAgain(rp).files = files
                /\ DeleteAgain(rp).dirs = dirs

\* C9's case: a digest stored under one path only was deleted by its digest.
C9_Witness ==
    /\ DeleteReturned /\ Resolved
    /\ last.call.file \in {computehash(b) : b \in Contents}
    /\ Matches(last.call.file) = {Target}
    /\ realpath(files, dirs, last.call.file) = {NoPath}

\* C10 as stated: for every identifier, exists is true exactly when get
\* returns an Address.
C10_ExistsAgreesWithGet ==
    \A x \in Identifiers :
       \A rp \in realpath(files, dirs, x) :
          exists(rp) <=> get(rp).kind = "address"

\* C11: for an identifier that matches no file by any form, get returns None
\* and open raises IOError, and neither changes the files or directories.
C11_MissingGetNoneOpenRaises ==
    ((last.op = "get" \/ last.op = "open") /\ Matches(last.call.file) = {})
    => /\ last.op = "get" => last.res = NoneResult
       /\ last.op = "open" => last.res = Raised("IOError")
       /\ files = pre.files
       /\ dirs = pre.dirs

\* C11's case: open of a name that names nothing, on a store that holds a
\* file, has raised.
C11_Witness ==
    /\ last.op = "open"
    /\ last.call.file = <<"z", "z">>
    /\ last.res = Raised("IOError")
    /\ \E k \in DOMAIN files : issubdir(k, Root)

\* A repair that has just returned, and the entries it returned.
RepairReturned == last.op = "repair"
Repaired == {last.res.value[i] : i \in 1..Len(last.res.value)}

\* The files under the root of filesystem fl that are not at the path their
\* content and extension give them.
Misplaced(fl) ==
    {k \in DOMAIN fl :
        /\ issubdir(k, Root)
        /\ k # idpath(computehash(fl[k].data), SplitExt(k)[2])}

\* C12 as stated: repair returns one entry for every file under the root
\* that was at a path inconsistent with its content; afterwards the old path
\* is no file, a file is at the entry's abspath, a new scan reports no file
\* with that content, and get of the digest resolves to the expected path.
C12_RepairConverges ==
    RepairReturned
    => \A k \in Misplaced(pre.files) :
          /\ Cardinality({e \in Repaired : e.path = k}) = 1
          /\ \A e \in Repaired :
                e.path = k
                => /\ ~isfile(k)
                   /\ isfile(e.address.abspath)
                   /\ \A j \in Misplaced(files) : files[j].data # pre.files[k].data
                   /\ \A rp \in realpath(files, dirs, e.address.id) :
                         rp = Found(e.address.abspath)

\* C13 as stated: when repair returns, no directory below the root that it
\* emptied still exists (symbolic links apart).
C13_RepairReclaimsEmptied ==
    RepairReturned
    => \A d \in dirs \ links :
          (issubdir(d, Root) /\ ListDir(pre.files, pre.dirs, d) # {})
          => ListDir(files, dirs, d) # {}

\* A configuration the digest is long enough for.
Fits(call) == call.depth * call.width <= Len(call.digest)

\* C14: for every digest and every depth and width with depth * width no
\* more than the digest's length, unshard of the root joined with the shards
\* of the digest returns the digest.
C14_ShardUnshardRoundTrip ==
    (last.op = "unshard" /\ Fits(last.call)) => last.res = Returned(last.call.digest)

\* C14's case: a digest that depth * width uses up entirely came back.
C14_Witness ==
    /\ last.op = "unshard"
    /\ last.call.depth = 2
    /\ last.call.depth * last.call.width = Len(last.call.digest)
    /\ last.res = Returned(last.call.digest)

\* C16 as stated: for every digest and every depth and width with
\* depth * width no more than the digest's length, shard returns depth + 1
\* segments, none empty: depth segments of width characters taken in order
\* from the front, then the remainder.
C16_ShardShape ==
    (last.op = "shard" /\ Fits(last.call))
    => LET segs == last.res.value
           d == last.call.depth
           w == last.call.width
       IN  /\ Len(segs) = d + 1
           /\ \A i \in 1..Len(segs) : segs[i] # <<>>
           /\ \A i \in 1..d :
                 segs[i] = SubSeq(last.call.digest, (i - 1) * w + 1, i * w)
           /\ segs[d + 1] = SubSeq(last.call.digest, d * w + 1, Len(last.call.digest))

\* C15 as stated: for every object put stored, with whatever extension
\* argument, unshard of its abspath is the id put returned, and so is the id
\* of get of its abspath.
C15_LayoutRecoversDigest ==
    PutReturned
    => /\ unshard(last.res.abspath) = Returned(last.res.id)
       /\ \A rp \in realpath(files, dirs, last.res.abspath) :
             get(rp).kind = "address" /\ get(rp).id = last.res.id

\* C17: a put whose source is a path that names no file (and no readable
\* object) raises ValueError and leaves every file and directory, temporary
\* ones included, as it was.
C17_InvalidSourceRaisesFirst ==
    (/\ last.op = "put"
     /\ last.call.src.kind = "path"
     /\ ~IsFileIn(pre.files, last.call.src.path))
    => /\ last.res = Raised("ValueError")
       /\ files = pre.files
       /\ dirs = pre.dirs

\* C17's case: put of the path "foo", which names no file, has raised.
C17_Witness ==
    /\ last.op = "put"
    /\ last.call.src = [kind |-> "path", path |-> <<"f", "o", "o">>]
    /\ ~last.call.simulate
    /\ last.res = Raised("ValueError")

\* String s has sub as a substring.
Contains(s, sub) ==
    \E i \in 0..(Len(s) - Len(sub)) : SubSeq(s, i + 1, i + Len(sub)) = sub

\* C18 as stated: in every Address that put or get returns, relpath does not
\* contain the root, and the root joined with relpath is abspath.
C18_RelpathAbspathAgree ==
    ((last.op = "put" \/ last.op = "get") /\ last.res.kind = "address")
    => /\ ~Contains(last.res.relpath, Root)
       /\ Join2(Root, last.res.relpath) = last.res.abspath

\* The same extension written the other way: with the leading separator
\* when e has none, without it when e has one.
OtherSpelling(e) == IF e[1] = ExtSep THEN Tail(e) ELSE <<ExtSep>> \o e

\* C19: when a put with a non-empty extension, given with or without its
\* leading separator, has stored an object, the path is the sharded digest,
\* one separator and the extension, and a put of the same source with the
\* extension spelled the other way returns that path and is a duplicate.
C19_ExtensionNormalised ==
    (PutReturned /\ last.call.extension # <<>>)
    => LET e == last.call.extension
           bare == IF e[1] = ExtSep THEN Tail(e) ELSE e
       IN  /\ last.res.abspath = idpath(last.res.id, <<>>) \o <<ExtSep>> \o bare
           /\ \A st \in Strategies, linked \in BOOLEAN :
                 LET second == PutAgain(last.call.src, OtherSpelling(e), st, linked)
                 IN  /\ second.res.kind = "address"
                     /\ second.res.abspath = last.res.abspath
                     /\ second.res.is_duplicate

\* C19's case: an object was stored with extension "t.g"; the same put with
\* ".t.g" is a duplicate.
C19_Witness ==
    /\ PutReturned
    /\ last.call.extension = <<"t", ".", "g">>
    /\ ~last.res.is_duplicate
    /\ PutAgain(last.call.src, <<".", "t", ".", "g">>, "copy", FALSE).res.is_duplicate

\* C20: a simulated put leaves the files and the directories as they were
\* (so its id resolves as before), and what it returns or raises is what a
\* real put of the same source, by any strategy, returns on the store as it
\* was.
C20_SimulatedPut ==
    (last.op = "put" /\ last.call.simulate)
    => /\ files = pre.files
       /\ dirs = pre.dirs
       /\ last.res.kind = "address"
          => realpath(files, dirs, last.res.id) = realpath(pre.files, pre.dirs, last.res.id)
       /\ \A st \in Strategies, linked \in BOOLEAN :
             put(pre.files, pre.dirs, last.call.src, last.call.extension,
                 st, FALSE, linked).res = last.res

\* C20's case: a simulated put of content that is not stored, with an
\* extension, returned an Address.
C20_Witness ==
    /\ last.op = "put"
    /\ last.call.simulate
    /\ last.call.extension = <<".", "t">>
    /\ last.res.kind = "address"
    /\ ~last.res.is_duplicate
    /\ ~isfile(last.res.abspath)

\* C21 as stated: whenever a put has returned or raised, the temporary file
\* it made is no longer there.
C21_NoTempFileEscapes ==
    \A p \in Procs : proc[p].pc = "done" => ~isfile(Tmp(p))

\* C22: a put whose target path held a file when it was called reports
\* is_duplicate = true and leaves every file (bytes and mode, the caller's
\* and temporary ones included) and every directory as it was.
C22_DuplicatePutWritesNothing ==
    (last.op = "put" /\ last.res.kind = "address"
        /\ IsFileIn(pre.files, last.res.abspath))
    => /\ last.res.is_duplicate
       /\ files = pre.files
       /\ dirs = pre.dirs

\* C22's case: the caller's file, whose mode is still its own, was put by
\* link when its content was already stored.
C22_Witness ==
    /\ last.op = "put"
    /\ ~last.call.simulate
    /\ last.call.put_strategy = "link"
    /\ last.call.src = [kind |-> "path", path |-> UserFile]
    /\ last.res.kind = "address"
    /\ last.res.is_duplicate
    /\ files[UserFile].mode = UserMode

\* C23: when put is given a readable object standing at position p, the id
\* it returns is the digest of the whole content, the file it stores holds
\* the whole content, and when put returns or raises the object is open and
\* at position p again.
C23_HandleReadWholeAndRestored ==
    (last.op = "put" /\ last.call.src.kind # "path")
    => /\ ~last.handle.closed
       /\ last.handle.offset = last.call.src.pos
       /\ last.res.kind = "address"
          => /\ last.res.id = computehash(BytesOf(last.call.src))
             /\ ~last.call.simulate
                => files[last.res.abspath].data = BytesOf(last.call.src)

\* C23's case: a handle standing at position 1 was put by copy and its
\* content stored.
C23_Witness ==
    /\ last.op = "put"
    /\ last.call.src = [kind |-> "handle", path |-> UserFile, pos |-> 1]
    /\ last.call.put_strategy = "copy"
    /\ ~last.call.simulate
    /\ last.res.kind = "address"
    /\ ~last.res.is_duplicate
    /\ last.handle = [offset |-> 1, closed |-> FALSE]

\* C24: repair loses no content: every content that some file under the
\* root held when repair was called is held by some file under the root
\* when repair has returned.
C24_RepairKeepsContent ==
    RepairReturned
    => \A k \in DOMAIN pre.files :
           issubdir(k, Root)
           => \E j \in DOMAIN files :
                  issubdir(j, Root) /\ files[j].data = pre.files[k].data

\* C25: delete is confined to the store: whatever identifier it is given,
\* every file and every directory that is not under the root when delete is
\* called is still there, unchanged, when delete has returned.
C25_DeleteConfinedToRoot ==
    DeleteReturned
    => /\ \A k \in DOMAIN pre.files :
              ~issubdir(k, Root) => k \in DOMAIN files /\ files[k] = pre.files[k]
       /\ \A d \in pre.dirs : ~issubdir(d, Root) => d \in dirs

\* C26: location matches content: in every state reached from the empty root
\* by put and delete, corrupted() yields no entry, in whatever order the
\* files are walked (so repair() would move nothing).
C26_LocationMatchesContent ==
    \A order \in find_files(files, dirs) : corrupted(files, order) = <<>>

\* C27: no empty directories: in every state reached from the empty root by
\* put and delete calls of one caller, every directory strictly below the
\* root has a file beneath it; so once every object is deleted the root has
\* no entry.
C27_NoEmptyDirectories ==
    links = {}
    => \A d \in dirs :
           issubdir(d, Root) => \E k \in DOMAIN files : issubdir(k, d)

\* C27's case: a delete has just removed the last object of a store that
\* had shard directories, and the root has no entry left.
C27_Witness ==
    /\ links = {}
    /\ DeleteReturned
    /\ \E k \in DOMAIN pre.files : issubdir(k, Root)
    /\ \E d \in pre.dirs : issubdir(d, Root)
    /\ ListDir(files, dirs, Root) = {}

\* C28: a put of content X that runs while another caller deletes a
\* different stored content Y (no caller deletes X) ends without error and
\* leaves X stored at its path, under every interleaving.
C28_PutSurvivesDelete ==
    \A p \in Procs :
        (/\ proc[p].pc = "done"
         /\ proc[p].src = [kind |-> "text", text |-> StoredText])
        => /\ proc[p].res.kind = "address"
           /\ isfile(proc[p].res.abspath)
           /\ files[proc[p].res.abspath].data = to_bytes(StoredText)
====
